---- MODULE Spec2Model ----
(***************************************************************************)
(* Password Safe (src/main.py): the vault Manager (key derivation,         *)
(* encrypted persistence, service/account CRUD) and the part of the GUI    *)
(* that decides when a Manager is created, re-keyed, written and dropped.  *)
(*                                                                         *)
(* Strings are sequences of character codes (1 = 'a', 2 = 'b', ...), so    *)
(* that sorted() and string comparison can be computed.  A Python dict is  *)
(* a sequence of [k, v] entries in insertion order with distinct keys;     *)
(* dict equality ignores the order (DictEq, DocEq).                        *)
(***************************************************************************)
EXTENDS Integers, Sequences, FiniteSets, TLC

(***************************************************************************)
(* Bounds of the model and program constants.                              *)
(***************************************************************************)
\* Manager instances one process run may create (successful logins).
MaxManagers == 2
\* src/main.py:37 is 120 one-second ticks; the model counts a shorter period.
INACTIVITY_PERIOD == 2
MIN_PASS_LENGTH == 8

(***************************************************************************)
(* Python dict: insertion-ordered entries with distinct keys.              *)
(***************************************************************************)
EmptyDict == <<>>

Keys(d) == {d[i].k : i \in 1..Len(d)}

\* k in d
Has(d, k) == \E i \in 1..Len(d) : d[i].k = k

\* d[k], for k in d
Get(d, k) == d[CHOOSE i \in 1..Len(d) : d[i].k = k].v

\* a faulty variant of dict assignment that appends without looking for the key
DictSetAppend(d, k, v) == Append(d, [k |-> k, v |-> v])

\* d[k] = v : replaces the value in place when k is present, else appends
DictSet(d, k, v) ==
    IF Has(d, k)
    THEN [i \in 1..Len(d) |-> IF d[i].k = k THEN [k |-> k, v |-> v] ELSE d[i]]
    ELSE Append(d, [k |-> k, v |-> v])

\* d.pop(k) / del d[k], for k in d
DictPop(d, k) == SelectSeq(d, LAMBDA e : e.k # k)

\* dict == dict on a dict of strings
DictEq(a, b) == Keys(a) = Keys(b) /\ \A k \in Keys(a) : Get(a, k) = Get(b, k)

\* dict == dict on a Document (a dict of dicts of strings)
DocEq(a, b) == Keys(a) = Keys(b) /\ \A k \in Keys(a) : DictEq(Get(a, k), Get(b, k))

\* no two entries of the sequence share a key
UniqueKeys(d) == \A i, j \in 1..Len(d) : d[i].k = d[j].k => i = j

(***************************************************************************)
(* Key derivation, Manager.__derive_key.                                   *)
(***************************************************************************)
RECURSIVE InsertSorted(_, _)
InsertSorted(c, s) ==
    IF s = <<>> THEN <<c>>
    ELSE IF c <= Head(s) THEN <<c>> \o s
    ELSE <<Head(s)>> \o InsertSorted(c, Tail(s))

\* sorted(password): the characters in ascending order
RECURSIVE sorted(_)
sorted(s) == IF s = <<>> THEN <<>> ELSE InsertSorted(Head(s), sorted(Tail(s)))

\* s[::-1]
Reversed(s) == [i \in 1..Len(s) |-> s[Len(s) + 1 - i]]

\* a faulty variant: the sorted characters are not reversed
SaltNotReversed(password) == sorted(password)

\* ''.join(sorted(password))[::-1]
Salt(password) == Reversed(sorted(password))

\* a faulty variant: the key material depends on the salt alone
derive_key_salt_only(password) == [salt |-> Salt(password), secret |-> <<>>]

\* PBKDF2HMAC(SHA256, 32, salt, 480000).derive(password), base64-encoded.  The
\* KDF is taken as collision-free: the key is the pair it is computed from.
derive_key(password) == [salt |-> Salt(password), secret |-> password]

(***************************************************************************)
(* Serialisation, encryption and the file.                                 *)
(***************************************************************************)
\* a faulty variant: the accounts of a service are not written out
JsonNoMembers(rec) == <<>>

\* json_dumps of a dict of strings: the members "user": "secret" in dict order
JsonMembers(rec) == [i \in 1..Len(rec) |-> <<rec[i].k, rec[i].v>>]

\* json_dumps(self._data): {"service": {"user": "secret", ...}, ...}
json_dumps(doc) == [i \in 1..Len(doc) |-> <<doc[i].k, JsonMembers(doc[i].v)>>]

\* the dict a JSON object of strings parses to (a repeated name keeps the last value)
RECURSIVE LoadMembers(_)
LoadMembers(ms) ==
    IF ms = <<>> THEN EmptyDict
    ELSE LET m == ms[Len(ms)]
         IN  DictSet(LoadMembers(SubSeq(ms, 1, Len(ms) - 1)), m[1], m[2])

\* json_loads(text)
RECURSIVE json_loads(_)
json_loads(text) ==
    IF text = <<>> THEN EmptyDict
    ELSE LET m == text[Len(text)]
         IN  DictSet(json_loads(SubSeq(text, 1, Len(text) - 1)), m[1], LoadMembers(m[2]))

\* Fernet(key).encrypt(plaintext): a URL-safe base64 token that only key opens
FernetEncrypt(key, plaintext) == [enc |-> "b64", body |-> <<[key |-> key, pt |-> plaintext]>>]

\* Fernet(key).decrypt(token) succeeds: the token is whole and was made under key
FernetValid(key, token) ==
    token.enc = "b64" /\ Len(token.body) = 1 /\ token.body[1].key = key

urlsafe_b64decode(token) == [enc |-> "bin", body |-> token.body]

urlsafe_b64encode(bytes) == [enc |-> "b64", body |-> bytes.body]

\* no file at the path
NoFile == [exists |-> FALSE, gz |-> "none", data |-> <<>>]

\* a file of zero bytes, as open(path, 'wb') leaves it before anything is flushed
EmptyFile == [exists |-> TRUE, gz |-> "empty", data |-> <<>>]

\* a gzip stream cut before its end-of-stream marker
TornFile == [exists |-> TRUE, gz |-> "torn", data |-> <<>>]

\* a complete gzip file holding bytes
GzipFile(bytes) == [exists |-> TRUE, gz |-> "whole", data |-> <<bytes>>]

\* what Manager.write leaves at the path when it completes
Seal(key, doc) == GzipFile(urlsafe_b64decode(FernetEncrypt(key, json_dumps(doc))))

\* a faulty variant: FileNotFoundError is not caught
ReadMissingRaises(f, key) ==
    IF ~f.exists THEN [res |-> "FileNotFoundError", data |-> EmptyDict]
    ELSE IF f.gz = "torn" THEN [res |-> "EOFError", data |-> EmptyDict]
    ELSE LET bytes == IF f.gz = "empty" THEN [enc |-> "bin", body |-> <<>>]
                      ELSE f.data[1]
             token == urlsafe_b64encode(bytes)
         IN  IF FernetValid(key, token)
             THEN [res |-> "ok", data |-> json_loads(token.body[1].pt)]
             ELSE [res |-> "InvalidToken", data |-> EmptyDict]

\* Manager.__read: the Document, or the exception it ends in
Read(f, key) ==
    IF ~f.exists THEN [res |-> "ok", data |-> EmptyDict]
    ELSE IF f.gz = "torn" THEN [res |-> "EOFError", data |-> EmptyDict]
    ELSE LET bytes == IF f.gz = "empty" THEN [enc |-> "bin", body |-> <<>>]
                      ELSE f.data[1]
             token == urlsafe_b64encode(bytes)
         IN  IF FernetValid(key, token)
             THEN [res |-> "ok", data |-> json_loads(token.body[1].pt)]
             ELSE [res |-> "InvalidToken", data |-> EmptyDict]

(***************************************************************************)
(* Manager's CRUD methods.  Each is computed on the Document and yields    *)
(* the Document afterwards and the outcome: the value returned ("None",    *)
(* "False") or the exception raised ("KeyError", "ValueError").            *)
(***************************************************************************)
Outcome(doc, res) == [data |-> doc, res |-> res]

\* self._data[service][username] = password, for service in the Document
SetAccount(doc, service, username, password) ==
    DictSet(doc, service, DictSet(Get(doc, service), username, password))

\* a faulty variant: the data replaces what the name held
add_service_replaces(doc, name, data) == Outcome(DictSet(doc, name, data), "None")

add_service(doc, name, data) ==
    IF ~Has(doc, name)
    THEN Outcome(DictSet(doc, name, data), "None")
    ELSE Outcome(doc, "KeyError")

\* a faulty variant: every service goes with the one named
delete_service_clears(doc, name) ==
    IF Has(doc, name)
    THEN Outcome(EmptyDict, "None")
    ELSE Outcome(doc, "KeyError")

\* self._data.pop(name)
delete_service(doc, name) ==
    IF Has(doc, name)
    THEN Outcome(DictPop(doc, name), "None")
    ELSE Outcome(doc, "KeyError")

\* a faulty variant: the existence of the old name is looked at before the conflict
rename_service_old_first(doc, name, new) ==
    IF ~Has(doc, name) THEN Outcome(doc, "KeyError")
    ELSE IF Has(doc, new) THEN Outcome(doc, "ValueError")
    ELSE delete_service(add_service(doc, new, Get(doc, name)).data, name)

\* a faulty variant: no test of the new name before add_service is called
rename_service_unchecked(doc, name, new) ==
    IF ~Has(doc, name) THEN Outcome(doc, "KeyError")
    ELSE LET added == add_service(doc, new, Get(doc, name))
         IN  IF added.res # "None" THEN added
             ELSE delete_service(added.data, name)

\* a faulty variant: the service is added under the new name and the old one stays
rename_service_keeps_old(doc, name, new) ==
    IF Has(doc, new) THEN Outcome(doc, "ValueError")
    ELSE IF ~Has(doc, name) THEN Outcome(doc, "KeyError")
    ELSE add_service(doc, new, Get(doc, name))

\* a faulty variant: the new name is entered before the old one is looked up
rename_service_copies_first(doc, name, new) ==
    IF Has(doc, new) THEN Outcome(doc, "ValueError")
    ELSE IF ~Has(doc, name) THEN Outcome(DictSet(doc, new, EmptyDict), "KeyError")
    ELSE delete_service(add_service(doc, new, Get(doc, name)).data, name)

\* the conflict test comes first; self._data[name] is evaluated as the argument
\* of add_service, before anything is changed
rename_service(doc, name, new) ==
    IF Has(doc, new) THEN Outcome(doc, "ValueError")
    ELSE IF ~Has(doc, name) THEN Outcome(doc, "KeyError")
    ELSE LET added == add_service(doc, new, Get(doc, name))
         IN  IF added.res # "None" THEN added
             ELSE delete_service(added.data, name)

\* a faulty variant: username and password change places in the assignment
add_account_swapped(doc, service, username, password) ==
    IF ~Has(doc, service) THEN Outcome(doc, "KeyError")
    ELSE IF ~Has(Get(doc, service), username)
    THEN Outcome(SetAccount(doc, service, password, username), "None")
    ELSE Outcome(doc, "ValueError")

\* a faulty variant: an absent service is created for the account
add_account_creates_service(doc, service, username, password) ==
    IF ~Has(doc, service)
    THEN Outcome(DictSet(doc, service, DictSet(EmptyDict, username, password)), "None")
    ELSE IF ~Has(Get(doc, service), username)
    THEN Outcome(SetAccount(doc, service, username, password), "None")
    ELSE Outcome(doc, "ValueError")

\* a faulty variant: the password of an existing account is replaced
add_account_overwrites(doc, service, username, password) ==
    IF ~Has(doc, service) THEN Outcome(doc, "KeyError")
    ELSE Outcome(SetAccount(doc, service, username, password), "None")

add_account(doc, service, username, password) ==
    IF ~Has(doc, service) THEN Outcome(doc, "KeyError")
    ELSE IF ~Has(Get(doc, service), username)
    THEN Outcome(SetAccount(doc, service, username, password), "None")
    ELSE Outcome(doc, "ValueError")

\* a faulty variant: a service left without accounts is removed as well
delete_account_drops_empty(doc, service, username) ==
    IF ~Has(doc, service) THEN Outcome(doc, "KeyError")
    ELSE IF ~Has(Get(doc, service), username) THEN Outcome(doc, "KeyError")
    ELSE IF Len(Get(doc, service)) = 1 THEN Outcome(DictPop(doc, service), "None")
    ELSE Outcome(DictSet(doc, service, DictPop(Get(doc, service), username)), "None")

\* del self._data[service][username]
delete_account(doc, service, username) ==
    IF ~Has(doc, service) THEN Outcome(doc, "KeyError")
    ELSE IF ~Has(Get(doc, service), username) THEN Outcome(doc, "KeyError")
    ELSE Outcome(DictSet(doc, service, DictPop(Get(doc, service), username)), "None")

\* a faulty variant: a username edit adds the new name and leaves the old one
edit_account_keeps_old(doc, service, username, change, new) ==
    IF change
    THEN IF new = username THEN Outcome(doc, "False")
         ELSE IF ~Has(doc, service) THEN Outcome(doc, "KeyError")
         ELSE IF Has(Get(doc, service), new) THEN Outcome(doc, "ValueError")
         ELSE IF ~Has(Get(doc, service), username) THEN Outcome(doc, "KeyError")
         ELSE add_account(doc, service, new, Get(Get(doc, service), username))
    ELSE IF ~Has(doc, service) THEN Outcome(doc, "KeyError")
         ELSE Outcome(SetAccount(doc, service, username, new), "None")

\* a faulty variant: a username edit to the same name is not set apart
edit_account_no_noop(doc, service, username, change, new) ==
    IF change
    THEN IF ~Has(doc, service) THEN Outcome(doc, "KeyError")
         ELSE IF Has(Get(doc, service), new) THEN Outcome(doc, "ValueError")
         ELSE IF ~Has(Get(doc, service), username) THEN Outcome(doc, "KeyError")
         ELSE delete_account(add_account(doc, service, new,
                                         Get(Get(doc, service), username)).data,
                             service, username)
    ELSE IF ~Has(doc, service) THEN Outcome(doc, "KeyError")
         ELSE Outcome(SetAccount(doc, service, username, new), "None")

edit_account(doc, service, username, change, new) ==
    IF change
    THEN IF new = username THEN Outcome(doc, "False")
         ELSE IF ~Has(doc, service) THEN Outcome(doc, "KeyError")
         ELSE IF Has(Get(doc, service), new) THEN Outcome(doc, "ValueError")
         ELSE IF ~Has(Get(doc, service), username) THEN Outcome(doc, "KeyError")
         ELSE LET added == add_account(doc, service, new,
                                       Get(Get(doc, service), username))
              IN  IF added.res # "None" THEN added
                  ELSE delete_account(added.data, service, username)
    ELSE IF ~Has(doc, service) THEN Outcome(doc, "KeyError")
         ELSE Outcome(SetAccount(doc, service, username, new), "None")

(***************************************************************************)
(* Manager.get_services: the Document with its services in sorted order.   *)
(***************************************************************************)
\* a < b on str: the first differing character decides, a proper prefix is less
StrLess(a, b) ==
    \E i \in 1..(Len(b)) :
        /\ \A j \in 1..(i - 1) : j <= Len(a) /\ a[j] = b[j]
        /\ (i = Len(a) + 1 \/ (i <= Len(a) /\ a[i] < b[i]))

RECURSIVE InsertKey(_, _)
InsertKey(k, ks) ==
    IF ks = <<>> THEN <<k>>
    ELSE IF ~StrLess(Head(ks), k) THEN <<k>> \o ks
    ELSE <<Head(ks)>> \o InsertKey(k, Tail(ks))

\* sorted(self._data): the keys of the dict in ascending order
RECURSIVE SortedKeys(_)
SortedKeys(d) ==
    IF d = <<>> THEN <<>> ELSE InsertKey(Head(d).k, SortedKeys(Tail(d)))

\* a faulty variant: the dict is handed out in insertion order
get_services_unsorted(doc) == doc

\* {k: self._data[k] for k in sorted(self._data)}
get_services(doc) ==
    LET ks == SortedKeys(doc)
    IN  [i \in 1..Len(ks) |-> [k |-> ks[i], v |-> Get(doc, ks[i])]]

(***************************************************************************)
(* State.                                                                  *)
(***************************************************************************)
VARIABLES
    file,            \* the bytes at DATA_PATH
    managers,        \* every Manager this process run has constructed: [key, data]
    exit_hooks,      \* atexit's registry: the Managers whose write is registered
    manager,         \* GUI.manager: an index into managers, 0 when the attribute is unset
    current_screen,  \* "create", "login" (LoginScreen), "change", "main"; "none": no process
    timer,           \* GUI.timer
    phase,           \* "running", "writing" (a write is under way), "exited", "killed"
    last,            \* the last call made and how it ended
    services         \* the Services frame of the MainScreen and the pointer over it

vars == <<file, managers, exit_hooks, manager, current_screen, timer, phase, last,
          services>>

Call(op, arg, res, old) == [op |-> op, arg |-> arg, res |-> res, old |-> old]

\* the Services frame as it is built over an empty vault: no Service widget, no
\* addition under way, the sorting button at 'A-Z', the pointer over no delete
\* button.  The specifications that call the store directly keep it at this.
NoServices == [service_objects |-> <<>>, adding |-> FALSE, sorting |-> "A-Z", pointer |-> 0]

\* the Document of the GUI's Manager
Data == managers[manager].data

\* the key of the GUI's Manager
Key == managers[manager].key

(***************************************************************************)
(* Inputs.                                                                 *)
(***************************************************************************)
PwA == <<1, 2, 1, 1, 1, 1, 1, 1>>
PwB == <<2, 1, 1, 1, 1, 1, 1, 1>>
PwShort == <<1, 2>>

\* what the user may type into the password entry
Passwords == {PwA, PwB, PwShort}

\* the names, usernames and secrets of the application runs
AppServices == {<<1>>}
AppUsers == {<<1>>}
AppSecrets == {<<1>>, <<2>>}

(***************************************************************************)
(* Manager construction and persistence.                                   *)
(***************************************************************************)
\* Manager.write of Manager m, run to completion on file f
Written(m) == Seal(m.key, m.data)

\* a faulty variant: the file is opened for appending, so a write onto a
\* complete file leaves two tokens in it
RECURSIVE RunExitHooksAppends(_, _, _)
RunExitHooksAppends(f, ms, hooks) ==
    IF hooks = <<>> THEN f
    ELSE LET w == Written(ms[hooks[Len(hooks)]])
             g == IF f.exists /\ f.gz = "whole"
                  THEN GzipFile([enc |-> "bin", body |-> f.data[1].body \o w.data[1].body])
                  ELSE w
         IN  RunExitHooksAppends(g, ms, SubSeq(hooks, 1, Len(hooks) - 1))

\* atexit runs the registered callbacks last-registered first: the file after
\* every hook in hooks has run, starting from f
RECURSIVE RunExitHooks(_, _, _)
RunExitHooks(f, ms, hooks) ==
    IF hooks = <<>> THEN f
    ELSE RunExitHooks(Written(ms[hooks[Len(hooks)]]), ms, SubSeq(hooks, 1, Len(hooks) - 1))

(***************************************************************************)
(* The GUI: LoginScreen.check_password, the inactivity timer, exit.        *)
(***************************************************************************)
Running == phase = "running"

\* a faulty variant: the exit hook is registered before __read is called, over
\* a Document that starts empty
LoginRegistersFirst(p) ==
    /\ Running
    /\ current_screen \in {"create", "login"}
    /\ Len(managers) < MaxManagers
    /\ timer' = 0
    /\ UNCHANGED <<services, file, phase>>
    /\ IF Len(p) < MIN_PASS_LENGTH
       THEN /\ last' = Call("login", <<p>>, "TooShort", <<>>)
            /\ UNCHANGED <<managers, exit_hooks, manager, current_screen>>
       ELSE LET key == derive_key(p)
                r == Read(file, key)
            IN  /\ managers' = Append(managers, [key |-> key, data |-> r.data])
                /\ exit_hooks' = Append(exit_hooks, Len(managers) + 1)
                /\ last' = Call("login", <<p>>, r.res, <<>>)
                /\ IF r.res = "ok"
                   THEN manager' = Len(managers) + 1 /\ current_screen' = "main"
                   ELSE UNCHANGED <<manager, current_screen>>

\* check_password on the create/login screen: manager_wrapper(entry), that is
\* Manager(DATA_PATH, entry).  __init__ registers the exit hook only after
\* __read has returned.
Login(p) ==
    /\ Running
    /\ current_screen \in {"create", "login"}
    /\ Len(managers) < MaxManagers
    /\ timer' = 0
    /\ UNCHANGED <<services, file, phase>>
    /\ IF Len(p) < MIN_PASS_LENGTH
       THEN /\ last' = Call("login", <<p>>, "TooShort", <<>>)
            /\ UNCHANGED <<managers, exit_hooks, manager, current_screen>>
       ELSE LET key == derive_key(p)
                r == Read(file, key)
            IN  IF r.res = "ok"
                THEN /\ managers' = Append(managers, [key |-> key, data |-> r.data])
                     /\ exit_hooks' = Append(exit_hooks, Len(managers) + 1)
                     /\ manager' = Len(managers) + 1
                     /\ current_screen' = "main"
                     /\ last' = Call("login", <<p>>, "ok", <<>>)
                ELSE /\ last' = Call("login", <<p>>, r.res, <<>>)
                     /\ UNCHANGED <<managers, exit_hooks, manager, current_screen>>

\* the 'Change the master password' button of the MainScreen
OpenChangeScreen ==
    /\ Running
    /\ current_screen = "main"
    /\ current_screen' = "change"
    /\ timer' = 0
    /\ last' = Call("open_change", <<>>, "None", <<>>)
    /\ UNCHANGED <<services, file, managers, exit_hooks, manager, phase>>

\* the back button of the change-password screen
Back ==
    /\ Running
    /\ current_screen = "change"
    /\ current_screen' = "main"
    /\ timer' = 0
    /\ last' = Call("back", <<>>, "None", <<>>)
    /\ UNCHANGED <<services, file, managers, exit_hooks, manager, phase>>

\* a faulty variant: the new key is derived and the Document is read anew, as in __init__
change_password_reset(m, password) == [key |-> derive_key(password), data |-> EmptyDict]

\* a faulty variant: the new key is derived but not stored
change_password_keeps_key(m, password) == m

\* Manager.change_password
change_password(m, password) == [m EXCEPT !.key = derive_key(password)]

\* check_password on the change-password screen
ChangePassword(p) ==
    /\ Running
    /\ current_screen = "change"
    /\ timer' = 0
    /\ UNCHANGED <<services, file, exit_hooks, manager, phase>>
    /\ IF Len(p) < MIN_PASS_LENGTH
       THEN /\ last' = Call("change_password", <<p>>, "TooShort", <<>>)
            /\ UNCHANGED <<managers, current_screen>>
       ELSE /\ managers' = [managers EXCEPT ![manager] = change_password(@, p)]
            /\ current_screen' = "main"
            /\ last' = Call("change_password", <<p>>, "None", <<Key>>)

\* a call of a CRUD method on the GUI's Manager, made from the MainScreen
\* a faulty variant: every call saves the Document it leaves
CrudAutosaves(op, arg, out, aux) ==
    /\ Running
    /\ current_screen = "main"
    /\ manager # 0
    /\ managers' = [managers EXCEPT ![manager].data = out.data]
    /\ file' = Seal(Key, out.data)
    /\ last' = Call(op, arg, out.res, aux)
    /\ timer' = 0
    /\ UNCHANGED <<services, exit_hooks, manager, current_screen, phase>>

\* a faulty variant: a call derives the key anew, from an empty password
CrudRekeys(op, arg, out, aux) ==
    /\ Running
    /\ current_screen = "main"
    /\ manager # 0
    /\ managers' = [managers EXCEPT ![manager] = [key |-> derive_key(<<>>), data |-> out.data]]
    /\ last' = Call(op, arg, out.res, aux)
    /\ timer' = 0
    /\ UNCHANGED <<services, file, exit_hooks, manager, current_screen, phase>>

\* a CRUD call from the main screen; aux is what the call record keeps beside
\* the outcome
CrudAux(op, arg, out, aux) ==
    /\ Running
    /\ current_screen = "main"
    /\ manager # 0
    /\ managers' = [managers EXCEPT ![manager].data = out.data]
    /\ last' = Call(op, arg, out.res, aux)
    /\ timer' = 0
    /\ UNCHANGED <<services, file, exit_hooks, manager, current_screen, phase>>

Crud(op, arg, out) == CrudAux(op, arg, out, <<>>)

AddService(name, data) ==
    Crud("add_service", <<name, data>>, add_service(Data, name, data))

RenameService(name, new) ==
    Crud("rename_service", <<name, new>>, rename_service(Data, name, new))

\* self._data.pop(name) hands back the record it removed: the call record keeps it
DeleteService(name) ==
    CrudAux("delete_service", <<name>>, delete_service(Data, name),
            IF Has(Data, name) THEN <<Get(Data, name)>> ELSE <<>>)

AddAccount(service, username, password) ==
    Crud("add_account", <<service, username, password>>,
         add_account(Data, service, username, password))

EditAccount(service, username, change, new) ==
    Crud("edit_account", <<service, username, change, new>>,
         edit_account(Data, service, username, change, new))

DeleteAccount(service, username) ==
    Crud("delete_account", <<service, username>>,
         delete_account(Data, service, username))

\* a call of Manager.get_services from the main screen; the dict it returns is
\* kept in the fourth field of the call record
GetServices ==
    /\ Running
    /\ current_screen = "main"
    /\ manager # 0
    /\ last' = Call("get_services", <<>>, "dict", <<get_services(Data)>>)
    /\ timer' = 0
    /\ UNCHANGED <<services, file, managers, exit_hooks, manager, current_screen, phase>>

\* a <Motion>, <Button> or <KeyPress> event: r() of inactivity_bindings.
\* timer = -2 stands for a timer whose callback is no longer scheduled (see
\* WriteFails): nothing counts from the 0 the event sets.
UserEvent ==
    /\ Running
    /\ timer \notin {0, -2}
    /\ timer' = 0
    /\ UNCHANGED <<services, file, managers, exit_hooks, manager, current_screen, phase, last>>

\* a faulty variant: the manager is dropped before the write, which then fails
\* on the missing attribute and ends the callback
TickDropsFirst ==
    /\ Running
    /\ IF current_screen \in {"main", "change"}
       THEN IF -1 < timer /\ timer < INACTIVITY_PERIOD
            THEN /\ timer' = timer + 1
                 /\ UNCHANGED <<services, file, managers, exit_hooks, manager, current_screen,
                                phase, last>>
            ELSE IF timer = INACTIVITY_PERIOD
            THEN /\ timer' = -1
                 /\ manager' = 0
                 /\ current_screen' = "login"
                 /\ last' = Call("lock", <<manager>>, "AttributeError", <<>>)
                 /\ UNCHANGED <<services, file, managers, exit_hooks, phase>>
            ELSE UNCHANGED vars
       ELSE UNCHANGED vars

\* a faulty variant: the timer is processed on every screen
TickOnEveryScreen ==
    /\ Running
    /\ IF -1 < timer /\ timer < INACTIVITY_PERIOD
       THEN /\ timer' = timer + 1
            /\ UNCHANGED <<services, file, managers, exit_hooks, manager, current_screen,
                           phase, last>>
       ELSE IF timer = INACTIVITY_PERIOD
       THEN /\ timer' = -1
            /\ current_screen' = "login"
            /\ IF manager # 0
               THEN /\ file' = Written(managers[manager])
                    /\ manager' = 0
                    /\ last' = Call("lock", <<manager>>, "None", <<>>)
               ELSE /\ last' = Call("lock", <<manager>>, "AttributeError", <<>>)
                    /\ UNCHANGED <<file, manager>>
            /\ UNCHANGED <<services, managers, exit_hooks, phase>>
       ELSE UNCHANGED vars

\* inactivity_timer, one run of the callback
Tick ==
    /\ Running
    /\ IF current_screen \in {"main", "change"}
       THEN IF -1 < timer /\ timer < INACTIVITY_PERIOD
            THEN /\ timer' = timer + 1
                 /\ UNCHANGED <<services, file, managers, exit_hooks, manager, current_screen,
                                phase, last>>
            ELSE IF timer = INACTIVITY_PERIOD
            THEN /\ timer' = -1
                 /\ file' = Written(managers[manager])
                 /\ manager' = 0
                 /\ current_screen' = "login"
                 /\ last' = Call("lock", <<manager>>, "None",
                                 IF last.op = "change_password" THEN last.old ELSE <<>>)
                 /\ UNCHANGED <<services, managers, exit_hooks, phase>>
            ELSE UNCHANGED vars
       ELSE UNCHANGED vars

\* the process has ended: nothing of its memory is left
Gone ==
    /\ managers' = <<>>
    /\ exit_hooks' = <<>>
    /\ manager' = 0
    /\ current_screen' = "none"
    /\ timer' = 0
    /\ UNCHANGED services

\* the window is closed: mainloop returns and the interpreter runs atexit.  The
\* call record keeps the hooks that ran and the call that came before.
Exit ==
    /\ Running
    /\ phase' = "exited"
    /\ file' = RunExitHooks(file, managers, exit_hooks)
    /\ last' = Call("exit", exit_hooks, "None", <<last.op, last.res>>)
    /\ Gone

\* the program is started again: GUI.__init__
Start ==
    /\ phase \in {"exited", "killed"}
    /\ phase' = "running"
    /\ current_screen' = IF file.exists THEN "login" ELSE "create"
    /\ last' = Call("start", <<>>, "None", <<>>)
    /\ UNCHANGED <<services, file, managers, exit_hooks, manager, timer>>

Init ==
    /\ file = NoFile
    /\ managers = <<>>
    /\ exit_hooks = <<>>
    /\ manager = 0
    /\ current_screen = "create"
    /\ timer = 0
    /\ phase = "running"
    /\ last = Call("start", <<>>, "None", <<>>)
    /\ services = NoServices

Next ==
    \/ \E p \in Passwords : Login(p)
    \/ OpenChangeScreen
    \/ Back
    \/ \E p \in Passwords : ChangePassword(p)
    \/ \E n \in AppServices : AddService(n, EmptyDict)
    \/ \E n, m \in AppServices : RenameService(n, m)
    \/ \E n \in AppServices : DeleteService(n)
    \/ \E n \in AppServices, u \in AppUsers, s \in AppSecrets : AddAccount(n, u, s)
    \/ \E n \in AppServices, u \in AppUsers, v \in AppUsers : EditAccount(n, u, TRUE, v)
    \/ \E n \in AppServices, u \in AppUsers, s \in AppSecrets : EditAccount(n, u, FALSE, s)
    \/ \E n \in AppServices, u \in AppUsers : DeleteAccount(n, u)
    \/ UserEvent
    \/ Tick
    \/ Exit
    \/ Start

Spec == Init /\ [][Next]_vars

\* inactivity_timer ends in self.after(1000, inactivity_timer): while the
\* program runs the callback is run again and again
SpecLive == Spec /\ WF_vars(Tick)

(***************************************************************************)
(* The session with the listing of services and with a write that fails.   *)
(***************************************************************************)
\* the next run of inactivity_timer locks the vault
LockDue == current_screen \in {"main", "change"} /\ timer = INACTIVITY_PERIOD

\* a faulty variant: the exception is met by dropping the Document
WriteFailsDropsDocument ==
    /\ Running
    /\ LockDue
    /\ timer' = -2
    /\ \E f \in {file, EmptyFile, TornFile} : file' = f
    /\ managers' = [managers EXCEPT ![manager].data = EmptyDict]
    /\ last' = Call("write", <<manager>>, "OSError", <<>>)
    /\ UNCHANGED <<services, exit_hooks, manager, current_screen, phase>>

\* the timeout's self.manager.write() raises OSError: from gzip_open (the file
\* is as it was) or from f.write (the file is truncated or cut short).  The
\* exception leaves inactivity_timer before `del self.manager` and before
\* self.after(...), so the Manager stays and the callback is not rescheduled.
WriteFails ==
    /\ Running
    /\ LockDue
    /\ timer' = -2
    /\ \E f \in {file, EmptyFile, TornFile} : file' = f
    /\ last' = Call("write", <<manager>>, "OSError", <<>>)
    /\ UNCHANGED <<services, managers, exit_hooks, manager, current_screen, phase>>

NextSession ==
    \/ Next
    \/ GetServices
    \/ WriteFails

SpecSession == Init /\ [][NextSession]_vars

(***************************************************************************)
(* The store alone: one Manager of a new vault, called with any arguments. *)
(***************************************************************************)
StoreServices == {<<>>, <<1>>}
StoreUsers == {<<1>>, <<2>>}
StoreSecrets == {<<1>>, <<2>>}
\* what add_service may be given as the data to start with
StoreSeeds == {EmptyDict, <<[k |-> <<1>>, v |-> <<1>>]>>}

InitStore ==
    /\ file = NoFile
    /\ managers = <<[key |-> derive_key(PwA), data |-> EmptyDict]>>
    /\ exit_hooks = <<1>>
    /\ manager = 1
    /\ current_screen = "main"
    /\ timer = 0
    /\ phase = "running"
    /\ last = Call("login", <<PwA>>, "ok", <<>>)
    /\ services = NoServices

NextStore ==
    \/ \E n \in StoreServices, d \in StoreSeeds : AddService(n, d)
    \/ \E n, m \in StoreServices : RenameService(n, m)
    \/ \E n \in StoreServices : DeleteService(n)
    \/ \E n \in StoreServices, u \in StoreUsers, s \in StoreSecrets : AddAccount(n, u, s)
    \/ \E n \in StoreServices, u \in StoreUsers, v \in StoreUsers : EditAccount(n, u, TRUE, v)
    \/ \E n \in StoreServices, u \in StoreUsers, s \in StoreSecrets :
          EditAccount(n, u, FALSE, s)
    \/ \E n \in StoreServices, u \in StoreUsers : DeleteAccount(n, u)

SpecStore == InitStore /\ [][NextStore]_vars

(***************************************************************************)
(* The store with three service names, so that a call on one service has   *)
(* others beside it and sorted() has something to order.                   *)
(***************************************************************************)
\* "a", "aa", "b"
NameServices == {<<1>>, <<1, 1>>, <<2>>}
NameUsers == {<<1>>}
NameSecrets == {<<1>>, <<2>>}
NameSeeds == {EmptyDict, <<[k |-> <<1>>, v |-> <<2>>]>>}

NextNames ==
    \/ \E n \in NameServices, d \in NameSeeds : AddService(n, d)
    \/ \E n, m \in NameServices : RenameService(n, m)
    \/ \E n \in NameServices : DeleteService(n)
    \/ \E n \in NameServices, u \in NameUsers, s \in NameSecrets : AddAccount(n, u, s)
    \/ \E n \in NameServices, u \in NameUsers, s \in NameSecrets :
          EditAccount(n, u, FALSE, s)
    \/ \E n \in NameServices, u \in NameUsers : DeleteAccount(n, u)
    \/ GetServices

SpecNames == InitStore /\ [][NextNames]_vars

(***************************************************************************)
(* The store with three usernames, so that an account has others beside it *)
(* in its own service.  Accounts are added to the first service; the       *)
(* second one gets its account from add_service's data.                    *)
(***************************************************************************)
UserServices == {<<1>>, <<2>>}
UserUsers == {<<1>>, <<2>>, <<3>>}
UserSecrets == {<<1>>, <<2>>}
UserSeeds == {EmptyDict, <<[k |-> <<1>>, v |-> <<2>>]>>}

NextUsers ==
    \/ \E n \in UserServices, d \in UserSeeds : AddService(n, d)
    \/ \E n \in UserServices : DeleteService(n)
    \/ \E u \in UserUsers, s \in UserSecrets : AddAccount(<<1>>, u, s)
    \/ \E n \in UserServices, u \in UserUsers, v \in UserUsers : EditAccount(n, u, TRUE, v)
    \/ \E n \in UserServices, u \in UserUsers : DeleteAccount(n, u)

SpecUsers == InitStore /\ [][NextUsers]_vars

(***************************************************************************)
(* The kill handler.  Manager.__init__ registers `lambda *_: self.write()` *)
(* for the termination signals; Python runs a signal handler between two   *)
(* bytecode instructions of the main thread, so also between the two calls *)
(* that rename_service and a username edit are made of.  Those two methods *)
(* are taken in their two steps here; phase tells which one is under way   *)
(* and the call record keeps its arguments.  The handler returns and the   *)
(* interrupted call goes on.                                               *)
(***************************************************************************)
SignalServices == {<<1>>, <<2>>}
SignalUsers == {<<1>>, <<2>>}
SignalSecrets == {<<1>>}

\* rename_service up to and including self.add_service(new, self._data[name])
RenameAdd(name, new) ==
    /\ Running
    /\ current_screen = "main"
    /\ manager # 0
    /\ ~Has(Data, new)
    /\ Has(Data, name)
    /\ managers' = [managers EXCEPT
                       ![manager].data = add_service(Data, new, Get(Data, name)).data]
    /\ phase' = "renaming"
    /\ last' = Call("rename_service", <<name, new>>, "pending", <<>>)
    /\ timer' = 0
    /\ UNCHANGED <<services, file, exit_hooks, manager, current_screen>>

\* the rest of rename_service: self.delete_service(name)
RenameDelete ==
    /\ phase = "renaming"
    /\ managers' = [managers EXCEPT
                       ![manager].data = delete_service(Data, last.arg[1]).data]
    /\ phase' = "running"
    /\ last' = Call("rename_service", last.arg, "None", <<>>)
    /\ UNCHANGED <<services, file, exit_hooks, manager, current_screen, timer>>

\* a username edit up to and including self.add_account(service, new, ...)
EditAdd(service, username, new) ==
    /\ Running
    /\ current_screen = "main"
    /\ manager # 0
    /\ new # username
    /\ Has(Data, service)
    /\ ~Has(Get(Data, service), new)
    /\ Has(Get(Data, service), username)
    /\ managers' = [managers EXCEPT
                       ![manager].data =
                           add_account(Data, service, new,
                                       Get(Get(Data, service), username)).data]
    /\ phase' = "editing"
    /\ last' = Call("edit_account", <<service, username, TRUE, new>>, "pending", <<>>)
    /\ timer' = 0
    /\ UNCHANGED <<services, file, exit_hooks, manager, current_screen>>

\* the rest of the username edit: self.delete_account(service, username)
EditDelete ==
    /\ phase = "editing"
    /\ managers' = [managers EXCEPT
                       ![manager].data =
                           delete_account(Data, last.arg[1], last.arg[2]).data]
    /\ phase' = "running"
    /\ last' = Call("edit_account", last.arg, "None", <<>>)
    /\ UNCHANGED <<services, file, exit_hooks, manager, current_screen, timer>>

\* a termination signal arrives: the handler of a constructed Manager runs its
\* write.  The call record keeps the arguments and the name of the call the
\* signal came after or into.
Signal ==
    /\ phase \in {"running", "renaming", "editing"}
    /\ \E i \in 1..Len(managers) : file' = Written(managers[i])
    /\ last' = Call("signal", last.arg, "None", <<last.op>>)
    /\ UNCHANGED <<services, managers, exit_hooks, manager, current_screen, timer, phase>>

NextSignal ==
    \/ \E p \in Passwords : Login(p)
    \/ \E n \in SignalServices : AddService(n, EmptyDict)
    \/ \E n \in SignalServices, u \in SignalUsers, s \in SignalSecrets : AddAccount(n, u, s)
    \/ \E n \in SignalServices : DeleteService(n)
    \/ \E n, m \in SignalServices : RenameAdd(n, m)
    \/ RenameDelete
    \/ \E n \in SignalServices, u, v \in SignalUsers : EditAdd(n, u, v)
    \/ EditDelete
    \/ Signal

SpecSignal == Init /\ [][NextSignal]_vars

(***************************************************************************)
(* Manager.write in its steps, for a process that is killed part-way.      *)
(* gzip_open(path, 'wb') truncates the file when the with-block is         *)
(* entered; the token is written and the stream completed on leaving it.   *)
(***************************************************************************)
\* inactivity_timer, when it only counts or does nothing
TickNoLock == ~LockDue /\ Tick

\* the timeout's self.manager.write() enters the with-block: the file is truncated
WriteOpen ==
    /\ Running
    /\ LockDue
    /\ timer' = -1
    /\ file' = EmptyFile
    /\ phase' = "writing"
    /\ last' = Call("write", <<manager>>, "open", <<>>)
    /\ UNCHANGED <<services, managers, exit_hooks, manager, current_screen>>

\* part of the compressed stream reaches the disk
WriteFlush ==
    /\ phase = "writing"
    /\ file = EmptyFile
    /\ file' = TornFile
    /\ UNCHANGED <<services, managers, exit_hooks, manager, current_screen, timer, phase, last>>

\* the with-block is left: the stream is complete; the timeout handler goes on
WriteClose ==
    /\ phase = "writing"
    /\ file' = Written(managers[manager])
    /\ manager' = 0
    /\ current_screen' = "login"
    /\ phase' = "running"
    /\ last' = Call("lock", <<manager>>, "None", <<>>)
    /\ UNCHANGED <<services, managers, exit_hooks, timer>>

\* the process is killed (SIGKILL, power loss): no handler runs
Kill ==
    /\ phase \in {"running", "writing"}
    /\ phase' = "killed"
    /\ last' = Call("kill", <<>>, "None", <<>>)
    /\ Gone
    /\ UNCHANGED file

NextCrash ==
    \/ \E p \in Passwords : Login(p)
    \/ \E n \in AppServices : AddService(n, EmptyDict)
    \/ \E n \in AppServices, u \in AppUsers, s \in AppSecrets : AddAccount(n, u, s)
    \/ UserEvent
    \/ TickNoLock
    \/ WriteOpen
    \/ WriteFlush
    \/ WriteClose
    \/ Kill
    \/ Start

SpecCrash == Init /\ [][NextCrash]_vars

(***************************************************************************)
(* The Services frame of the MainScreen: the Service widgets, the addition *)
(* of a service, the two-step deletion and the sorting button.  A Service  *)
(* widget holds its name as <<>> (None, not confirmed yet) or <<name>>.    *)
(* Beside the fields of the program a widget carries where the pointer is  *)
(* with respect to its delete button: "off", "over", or "clicked" (over    *)
(* it, and clicked since it came over it).                                 *)
(***************************************************************************)
\* misc_utils.is_empty on the text of an entry
is_empty(text) == Len(text) = 0

\* Service.__init__
Service(name) == [name |-> name, delete_step |-> FALSE, pointer |-> "off"]

\* Services.__init__: one Service per service of get_services(), in its order
Services(doc) ==
    [service_objects |-> [i \in 1..Len(get_services(doc)) |->
                             Service(<<get_services(doc)[i].k>>)],
     adding |-> FALSE,
     sorting |-> "A-Z"]

\* what a handler leaves: the Document, the frame, the call it made on the
\* Manager or on sort (none: <<>>) and what it returned or raised
Handled(doc, s, call, res) == [data |-> doc, services |-> s, call |-> call, res |-> res]

\* list.remove(self) for the widget at place i
RemoveAt(objs, i) == SubSeq(objs, 1, i - 1) \o SubSeq(objs, i + 1, Len(objs))

RECURSIVE InsertObject(_, _)
InsertObject(o, objs) ==
    IF objs = <<>> THEN <<o>>
    ELSE IF ~StrLess(Head(objs).name[1], o.name[1]) THEN <<o>> \o objs
    ELSE <<Head(objs)>> \o InsertObject(o, Tail(objs))

\* sorted(self.service_objects, key=lambda o: o.name)
RECURSIVE SortedObjects(_)
SortedObjects(objs) ==
    IF objs = <<>> THEN <<>> ELSE InsertObject(Head(objs), SortedObjects(Tail(objs)))

\* Services.sort: self.service_objects[-1] is read first, whatever the list holds
sort(s, z_a) ==
    IF s.service_objects = <<>> THEN [services |-> s, res |-> "IndexError"]
    ELSE LET objs == s.service_objects
             addition == objs[Len(objs)].name = <<>>
             rest == IF addition THEN SubSeq(objs, 1, Len(objs) - 1) ELSE objs
             ordered == IF z_a THEN Reversed(SortedObjects(rest)) ELSE SortedObjects(rest)
         IN  [services |-> [s EXCEPT !.service_objects =
                                IF addition THEN Append(ordered, objs[Len(objs)])
                                ELSE ordered],
              res |-> "None"]

\* the command of the sorting button: the text is switched, then sort is called
sorting(doc, s) ==
    LET order == IF s.sorting = "Z-A" THEN "A-Z" ELSE "Z-A"
        done == sort([s EXCEPT !.sorting = order], order # "A-Z")
    IN  Handled(doc, done.services, <<Call("sort", <<order # "A-Z">>, done.res, <<>>)>>,
                done.res)

\* Services.add
add(doc, s) ==
    IF ~s.adding
    THEN Handled(doc, [s EXCEPT !.adding = TRUE,
                                !.service_objects = Append(@, Service(<<>>))],
                 <<>>, "None")
    ELSE Handled(doc, s, <<>>, "None")

\* the widget at place i is given its name and the list is sorted again
Named(doc, s, i, new, call) ==
    LET named == [s EXCEPT !.service_objects[i].name = <<new>>]
        done == sort(named, named.sorting # "A-Z")
    IN  Handled(doc, done.services,
                <<[call EXCEPT !.old = <<"sort", done.res>>]>>, "None")

\* a faulty variant: the text of the entry is handed on without a look at it
create_any_name(doc, s, i, new) ==
    LET out == add_service(doc, new, EmptyDict)
        call == Call("add_service", <<new, EmptyDict>>, out.res, <<>>)
    IN  IF out.res = "KeyError" THEN Handled(doc, s, <<call>>, "True")
        ELSE Named(out.data, [s EXCEPT !.adding = FALSE], i, new, call)

\* Service.__create: None when the text is empty and when the service was
\* created, True when the name is taken
create(doc, s, i, new) ==
    IF is_empty(new) THEN Handled(doc, s, <<>>, "None")
    ELSE LET out == add_service(doc, new, EmptyDict)
             call == Call("add_service", <<new, EmptyDict>>, out.res, <<>>)
         IN  IF out.res = "KeyError" THEN Handled(doc, s, <<call>>, "True")
             ELSE Named(out.data, [s EXCEPT !.adding = FALSE], i, new, call)

\* Service.__rename
rename(doc, s, i, new) ==
    LET name == s.service_objects[i].name[1]
    IN  IF name # new /\ ~is_empty(new)
        THEN LET out == rename_service(doc, name, new)
                 call == Call("rename_service", <<name, new>>, out.res, <<>>)
             IN  IF out.res = "ValueError" THEN Handled(doc, s, <<call>>, "False")
                 ELSE IF out.res # "None" THEN Handled(doc, s, <<call>>, out.res)
                 ELSE [Named(out.data, s, i, new, call) EXCEPT !.res = "True"]
        ELSE Handled(doc, s, <<>>, "True")

\* Service.__check_conflicting, at the last key released: the error label is shown
check_conflicting(doc, o, new) == o.name # <<new>> /\ Has(get_services(doc), new)

\* Service.handle_change, for the label losing the focus (escape false) or ESC
handle_change(doc, s, i, text, escape) ==
    LET o == s.service_objects[i]
    IN  IF o.name # <<>>
        THEN IF escape \/ check_conflicting(doc, o, text) \/ is_empty(text)
             THEN Handled(doc, s, <<>>, "None")
             ELSE [rename(doc, s, i, text) EXCEPT !.res = "None"]
        ELSE LET tried == ~(escape \/ is_empty(text))
                 made == create(doc, s, i, text)
             IN  IF tried /\ made.res # "True" THEN made
                 ELSE Handled(doc,
                              [s EXCEPT !.service_objects = RemoveAt(@, i),
                                        !.adding = FALSE],
                              IF tried THEN made.call ELSE <<>>, "None")

\* del_reset, bound to <Leave> of the delete button
del_reset(o) == [o EXCEPT !.delete_step = FALSE]

\* a faulty variant: the first click deletes
deletion_confirmation_at_once(doc, s, i) ==
    LET name == s.service_objects[i].name[1]
        out == delete_service(doc, name)
        call == Call("delete_service", <<name>>, out.res, <<>>)
    IN  IF out.res # "None" THEN Handled(doc, s, <<call>>, out.res)
        ELSE Handled(out.data, [s EXCEPT !.service_objects = RemoveAt(@, i)],
                     <<call>>, "None")

\* Service.__deletion_confirmation, the command of the delete button
deletion_confirmation(doc, s, i) ==
    IF ~s.service_objects[i].delete_step
    THEN Handled(doc, [s EXCEPT !.service_objects[i].delete_step = TRUE], <<>>, "None")
    ELSE LET name == s.service_objects[i].name[1]
             out == delete_service(doc, name)
             call == Call("delete_service", <<name>>, out.res, <<>>)
         IN  IF out.res # "None" THEN Handled(doc, s, <<call>>, out.res)
             ELSE Handled(out.data, [s EXCEPT !.service_objects = RemoveAt(@, i)],
                          <<call>>, "None")

\* the names and the texts typed into the label of a Service
ServiceNames == {<<1>>, <<2>>}
LabelTexts == {<<>>} \cup ServiceNames
\* the vaults the MainScreen is built over
ServiceDocs ==
    {EmptyDict,
     <<[k |-> <<2>>, v |-> EmptyDict]>>,
     <<[k |-> <<2>>, v |-> EmptyDict], [k |-> <<1>>, v |-> <<[k |-> <<1>>, v |-> <<1>>]>>]>>}

\* the places of the Service widgets
Objects == 1..Len(services.service_objects)

\* the widgets that have no name yet
Unconfirmed == {i \in Objects : services.service_objects[i].name = <<>>}

\* an event on the MainScreen has been handled
ServicesStep(r) ==
    /\ Running
    /\ current_screen = "main"
    /\ manager # 0
    /\ managers' = [managers EXCEPT ![manager].data = r.data]
    /\ services' = r.services
    /\ last' = IF r.call = <<>> THEN last ELSE r.call[1]
    /\ timer' = 0
    /\ UNCHANGED <<file, exit_hooks, manager, current_screen, phase>>

\* a click on the AddService button
Add == ServicesStep(add(Data, services))

\* ENTER released in the label of the Service that is being added
EnterCreate(text) ==
    \E i \in Unconfirmed : ServicesStep(create(Data, services, i, text))

\* ENTER released in the label of a named Service, which has the focus only
\* when no Service is being added
EnterRename(i, text) ==
    /\ ~services.adding
    /\ services.service_objects[i].name # <<>>
    /\ ServicesStep(rename(Data, services, i, text))

\* the label of a Service loses the focus, or ESC is released in it
HandleChange(i, text, escape) ==
    ServicesStep(handle_change(Data, services, i, text, escape))

\* a click on the sorting button
SortClick == ServicesStep(sorting(Data, services))

\* the pointer comes over the delete button of a named Service
PointerEnter(i) ==
    /\ services.service_objects[i].name # <<>>
    /\ \A j \in Objects : services.service_objects[j].pointer = "off"
    /\ ServicesStep(Handled(Data, [services EXCEPT !.service_objects[i].pointer = "over"],
                            <<>>, "None"))

\* <Leave> of the delete button
PointerLeave(i) ==
    /\ services.service_objects[i].pointer # "off"
    /\ ServicesStep(Handled(Data,
                            [services EXCEPT !.service_objects[i] =
                                [del_reset(@) EXCEPT !.pointer = "off"]],
                            <<>>, "None"))

\* a click on the delete button under the pointer; the press has first taken
\* the focus from a Service that was being added (mouse_off), so none is
ClickDelete(i) ==
    /\ services.service_objects[i].pointer # "off"
    /\ ~services.adding
    /\ LET r == deletion_confirmation(Data, services, i)
       IN  ServicesStep(IF Len(r.services.service_objects) = Len(services.service_objects)
                        THEN [r EXCEPT !.services.service_objects[i].pointer = "clicked"]
                        ELSE r)

InitServices ==
    /\ file = NoFile
    /\ \E doc \in ServiceDocs :
          /\ managers = <<[key |-> derive_key(PwA), data |-> doc]>>
          /\ services = Services(doc)
    /\ exit_hooks = <<1>>
    /\ manager = 1
    /\ current_screen = "main"
    /\ timer = 0
    /\ phase = "running"
    /\ last = Call("login", <<PwA>>, "ok", <<>>)

NextServices ==
    \/ Add
    \/ \E text \in LabelTexts : EnterCreate(text)
    \/ \E i \in Objects, text \in LabelTexts : EnterRename(i, text)
    \/ \E i \in Objects, text \in LabelTexts, escape \in BOOLEAN : HandleChange(i, text, escape)
    \/ SortClick
    \/ \E i \in Objects : PointerEnter(i)
    \/ \E i \in Objects : PointerLeave(i)
    \/ \E i \in Objects : ClickDelete(i)

SpecServices == InitServices /\ [][NextServices]_vars

(***************************************************************************)
(* Properties.                                                             *)
(***************************************************************************)
\* the passwords check_password hands to the Manager
ValidPasswords == {p \in Passwords : Len(p) >= MIN_PASS_LENGTH}

\* f is a complete vault file sealed under the key of password p
SealedUnder(f, p) ==
    f.exists /\ f.gz = "whole" /\ FernetValid(derive_key(p), urlsafe_b64encode(f.data[1]))

\* opening f with key yields the Document doc
OpensTo(f, key, doc) == Read(f, key).res = "ok" /\ DocEq(Read(f, key).data, doc)

\* some service of the Document holds an account
HasAccount(doc) == \E i \in 1..Len(doc) : doc[i].v # EmptyDict

\* C1: round trip.  When the vault has been sealed by Manager.write (the
\* inactivity lock) and is then opened by a new Manager under the password of
\* the key it was sealed with, the new Manager holds a Document equal to the one
\* that was sealed: same services, same usernames, same secrets.
C1_RoundTrip ==
    [][\A p \in ValidPasswords :
          (/\ last.op = "lock"
           /\ derive_key(p) = managers[last.arg[1]].key
           /\ Login(p))
          => /\ last'.res = "ok"
             /\ manager' = Len(managers) + 1
             /\ DocEq(managers'[manager'].data, managers[last.arg[1]].data)]_vars

\* a second Manager has just opened a vault with an account in it
C1_Witness ==
    /\ last.op = "login"
    /\ last.res = "ok"
    /\ manager = 2
    /\ HasAccount(Data)
    /\ DocEq(Data, managers[1].data)

\* C2: wrong password.  Opening a vault file sealed under P with a password
\* P2 # P ends in InvalidToken, and no Manager is created.
C2_WrongPassword ==
    [][\A p, p2 \in ValidPasswords :
          (last'.op = "login" /\ p2 # p /\ SealedUnder(file, p) /\ Login(p2))
          => /\ last'.res = "InvalidToken"
             /\ managers' = managers
             /\ exit_hooks' = exit_hooks
             /\ manager' = 0]_vars

\* a login has just failed on a vault sealed under another password
C2_Witness ==
    /\ last.op = "login"
    /\ last.res = "InvalidToken"
    /\ manager = 0
    /\ \E p \in ValidPasswords : p # last.arg[1] /\ SealedUnder(file, p)

\* C3: a normal exit leaves a file that opens, with the key of the Manager the
\* user worked with last, to that Manager's Document.
C3_ExitPersistsCurrent ==
    [][(last'.op = "exit" /\ managers # <<>>)
       => OpensTo(file', managers[Len(managers)].key, managers[Len(managers)].data)]_vars

\* C4: after the process is killed, the file at the vault path is absent (as
\* before the first write) or a complete vault, never empty or cut short.
C4_CrashAtomic == phase = "killed" => file.gz \in {"none", "whole"}

\* C5 as stated: change_password(p) leaves the Document and the file alone, and
\* the file then opens with the old password and fails with the new one.
C5_FileStillUnderOld ==
    [][\A p \in ValidPasswords :
          (last'.op = "change_password" /\ ChangePassword(p))
          => /\ file' = file
             /\ managers'[manager].data = Data
             /\ Read(file', Key).res = "ok"
             /\ Read(file', derive_key(p)).res = "InvalidToken"]_vars

\* C5, amended: change_password(p) leaves the Document and the file alone, so
\* the file opens with exactly the passwords it opened with before; when a file
\* exists that opens with the old password and p derives another key, it fails
\* authentication with the new password.
C5_ChangePasswordFrame ==
    [][\A p \in ValidPasswords :
          (last'.op = "change_password" /\ ChangePassword(p))
          => /\ file' = file
             /\ managers'[manager].data = Data
             /\ managers'[manager].key = derive_key(p)
             /\ \A q \in ValidPasswords :
                   Read(file', derive_key(q)) = Read(file, derive_key(q))
             /\ (file.exists /\ Read(file, Key).res = "ok" /\ derive_key(p) # Key)
                => /\ Read(file', Key).res = "ok"
                   /\ Read(file', derive_key(p)).res = "InvalidToken"]_vars

\* the password of a vault with a file on disk has just been changed to another
C5_Witness ==
    /\ last.op = "change_password"
    /\ last.res = "None"
    /\ file.exists
    /\ HasAccount(Data)
    /\ last.old[1] # Key
    /\ Read(file, last.old[1]).res = "ok"
    /\ Read(file, Key).res = "InvalidToken"

\* C6: a seal that follows change_password(new) leaves a file that opens with
\* the new password to the unchanged Document and, when the old key differs,
\* fails authentication with the old password.  The seal is the write of the
\* inactivity lock, or the exit of a process with one Manager.
C6_SealUnderNewKey ==
    [][(/\ last.op = "change_password"
        /\ last.res = "None"
        /\ \/ last'.op = "lock"
           \/ last'.op = "exit" /\ Len(exit_hooks) = 1)
       => /\ OpensTo(file', derive_key(last.arg[1]), Data)
          /\ last.old[1] # derive_key(last.arg[1])
             => Read(file', last.old[1]).res = "InvalidToken"]_vars

\* the lock has just sealed a vault whose password had been changed to another
C6_Witness ==
    /\ last.op = "lock"
    /\ last.old # <<>>
    /\ last.old[1] # managers[last.arg[1]].key
    /\ HasAccount(managers[last.arg[1]].data)
    /\ OpensTo(file, managers[last.arg[1]].key, managers[last.arg[1]].data)

AccountAbsent(doc, service, username) ==
    ~Has(doc, service) \/ ~Has(Get(doc, service), username)

\* C8: edit_account raises KeyError whenever the service or the user is absent,
\* in both edit modes and for every new value, and leaves the Document unchanged.
C8_EditAbsentIsKeyError ==
    [][\A n \in StoreServices, u \in StoreUsers, c \in BOOLEAN,
          v \in StoreUsers \cup StoreSecrets :
          (AccountAbsent(Data, n, u) /\ EditAccount(n, u, c, v))
          => last'.res = "KeyError" /\ managers' = managers]_vars

\* C9: a password edit never changes the set of usernames of any service and
\* changes no secret other than that of (service, user).
C9_PasswordEditInPlace ==
    [][\A n \in StoreServices, u \in StoreUsers, v \in StoreSecrets :
          EditAccount(n, u, FALSE, v)
          => LET after == managers'[manager].data
             IN  /\ Keys(after) = Keys(Data)
                 /\ \A s \in Keys(Data) :
                       /\ Keys(Get(after, s)) = Keys(Get(Data, s))
                       /\ \A w \in Keys(Get(Data, s)) :
                             (s # n \/ w # u)
                             => Get(Get(after, s), w) = Get(Get(Data, s), w)]_vars

\* C10 as stated: rename_service(old, new) raises KeyError whenever old is
\* absent, whatever new is, and leaves the Document unchanged.
C10_RenameAbsentIsKeyError ==
    [][\A n, m \in StoreServices :
          (~Has(Data, n) /\ RenameService(n, m))
          => last'.res = "KeyError" /\ managers' = managers]_vars

\* C10, amended: rename_service(old, new) with old absent leaves the Document
\* unchanged; it raises KeyError when new is absent too, and ValueError (the
\* conflict) when new is the name of an existing service.
C10_RenameAbsent ==
    [][\A n, m \in StoreServices :
          (~Has(Data, n) /\ RenameService(n, m))
          => /\ managers' = managers
             /\ last'.res = IF Has(Data, m) THEN "ValueError" ELSE "KeyError"]_vars

\* a rename of an absent service to the name of an existing one was refused
C10_Witness ==
    /\ last.op = "rename_service"
    /\ ~Has(Data, last.arg[1])
    /\ Has(Data, last.arg[2])
    /\ HasAccount(Data)
    /\ last.res = "ValueError"

\* C11: rename_service(old, new) with old present and new present in the
\* Document, new = old included, raises ValueError (the conflict) and leaves
\* the Document unchanged.
C11_RenameConflict ==
    [][\A n, m \in NameServices :
          (Has(Data, n) /\ Has(Data, m) /\ RenameService(n, m))
          => last'.res = "ValueError" /\ managers' = managers]_vars

\* a service that holds an account was renamed to its own name, beside another
\* service, and the call was refused
C11_Witness ==
    /\ last.op = "rename_service"
    /\ last.arg[1] = last.arg[2]
    /\ Has(Data, last.arg[1])
    /\ Get(Data, last.arg[1]) # EmptyDict
    /\ Len(Data) >= 2
    /\ last.res = "ValueError"

\* C12: a successful rename_service(old, new) moves the Service Record: new
\* maps to the accounts and secrets old mapped to, old is absent, every other
\* service is unchanged and the number of services is the same.
C12_RenameMoves ==
    [][\A n, m \in NameServices :
          (RenameService(n, m) /\ last'.res = "None")
          => LET after == managers'[manager].data
             IN  /\ Has(Data, n)
                 /\ Has(after, m)
                 /\ DictEq(Get(after, m), Get(Data, n))
                 /\ ~Has(after, n)
                 /\ \A k \in Keys(Data) \ {n} :
                       Has(after, k) /\ DictEq(Get(after, k), Get(Data, k))
                 /\ Keys(after) = (Keys(Data) \ {n}) \cup {m}
                 /\ Len(after) = Len(Data)
                 /\ UniqueKeys(after)]_vars

\* a service with an account was renamed, beside another service with an account
C12_Witness ==
    /\ last.op = "rename_service"
    /\ last.res = "None"
    /\ Has(Data, last.arg[2])
    /\ Get(Data, last.arg[2]) # EmptyDict
    /\ \E k \in Keys(Data) \ {last.arg[2]} : Get(Data, k) # EmptyDict

\* C13: add_service(name, data) on a name that is present raises KeyError; the
\* Document still has exactly one service of that name and its accounts are
\* the ones it had, not data.
C13_AddServiceConflict ==
    [][\A n \in NameServices, d \in NameSeeds :
          (Has(Data, n) /\ AddService(n, d))
          => LET after == managers'[manager].data
             IN  /\ last'.res = "KeyError"
                 /\ Cardinality({i \in 1..Len(after) : after[i].k = n}) = 1
                 /\ Get(after, n) = Get(Data, n)
                 /\ managers' = managers]_vars

\* a service with an account was added again with other data and refused
C13_Witness ==
    /\ last.op = "add_service"
    /\ last.res = "KeyError"
    /\ Has(Data, last.arg[1])
    /\ Get(Data, last.arg[1]) # EmptyDict
    /\ ~DictEq(Get(Data, last.arg[1]), last.arg[2])

\* C14: deletion cascade.  delete_service(X) on a present X leaves no record
\* of X and so none of its accounts; while X is absent every add_account(X, u,
\* p) raises KeyError and changes nothing; X becomes present again only by
\* being added: by add_service(X, ...), directly or from rename_service(., X).
C14_DeletionCascade ==
    [][LET after == managers'[manager].data
       IN  /\ \A n \in NameServices :
                 (Has(Data, n) /\ DeleteService(n))
                 => last'.res = "None" /\ ~Has(after, n)
           /\ \A n \in NameServices, u \in NameUsers, p \in NameSecrets :
                 (~Has(Data, n) /\ AddAccount(n, u, p))
                 => last'.res = "KeyError" /\ managers' = managers
           /\ \A n \in NameServices :
                 (~Has(Data, n) /\ Has(after, n))
                 => \/ last'.op = "add_service" /\ last'.arg[1] = n
                    \/ last'.op = "rename_service" /\ last'.arg[2] = n]_vars

\* a service that held an account has just been deleted, beside another service
C14_Witness ==
    /\ last.op = "delete_service"
    /\ last.res = "None"
    /\ last.old # <<>>
    /\ last.old[1] # EmptyDict
    /\ ~Has(Data, last.arg[1])
    /\ Data # EmptyDict

\* C15: add_account(service, user, pass) raises KeyError if the service is
\* absent, and ValueError if the user is present in it, keeping the secret the
\* user has; otherwise it inserts the entry user -> pass in that service and
\* changes nothing else.
C15_AddAccount ==
    [][\A n \in StoreServices, u \in StoreUsers, p \in StoreSecrets :
          (last'.op = "add_account" /\ AddAccount(n, u, p))
          => LET after == managers'[manager].data
             IN  IF ~Has(Data, n)
                 THEN last'.res = "KeyError" /\ managers' = managers
                 ELSE IF Has(Get(Data, n), u)
                 THEN /\ last'.res = "ValueError"
                      /\ Get(Get(after, n), u) = Get(Get(Data, n), u)
                      /\ managers' = managers
                 ELSE /\ last'.res = "None"
                      /\ Keys(after) = Keys(Data)
                      /\ Keys(Get(after, n)) = Keys(Get(Data, n)) \cup {u}
                      /\ Len(Get(after, n)) = Len(Get(Data, n)) + 1
                      /\ Get(Get(after, n), u) = p
                      /\ \A w \in Keys(Get(Data, n)) :
                            Get(Get(after, n), w) = Get(Get(Data, n), w)
                      /\ \A k \in Keys(Data) \ {n} :
                            DictEq(Get(after, k), Get(Data, k))]_vars

\* an account was added to a service beside another account, with accounts in
\* another service
C15_Witness ==
    /\ last.op = "add_account"
    /\ last.res = "None"
    /\ Has(Data, last.arg[1])
    /\ Len(Get(Data, last.arg[1])) = 2
    /\ Get(Get(Data, last.arg[1]), last.arg[2]) = last.arg[3]
    /\ \E k \in Keys(Data) \ {last.arg[1]} : Get(Data, k) # EmptyDict

\* C16: a username edit, edit_account(service, user, True, new) with user
\* present and new # user.  If new is a username of the service it raises
\* ValueError and the Document is unchanged; otherwise the secret of user is
\* stored under new, user is removed, and the number of accounts of the
\* service and every other account are unchanged.
C16_UsernameEdit ==
    [][\A n \in UserServices, u, v \in UserUsers :
          (/\ last'.op = "edit_account"
           /\ Has(Data, n)
           /\ Has(Get(Data, n), u)
           /\ v # u
           /\ EditAccount(n, u, TRUE, v))
          => LET after == managers'[manager].data
             IN  IF Has(Get(Data, n), v)
                 THEN last'.res = "ValueError" /\ managers' = managers
                 ELSE /\ last'.res = "None"
                      /\ Keys(after) = Keys(Data)
                      /\ Keys(Get(after, n)) = (Keys(Get(Data, n)) \ {u}) \cup {v}
                      /\ Len(Get(after, n)) = Len(Get(Data, n))
                      /\ Get(Get(after, n), v) = Get(Get(Data, n), u)
                      /\ \A w \in Keys(Get(Data, n)) \ {u} :
                            Get(Get(after, n), w) = Get(Get(Data, n), w)
                      /\ \A k \in Keys(Data) \ {n} :
                            DictEq(Get(after, k), Get(Data, k))]_vars

\* a username was edited in a service that holds another account, with an
\* account in another service
C16_Witness ==
    /\ last.op = "edit_account"
    /\ last.arg[3]
    /\ last.res = "None"
    /\ Has(Data, last.arg[1])
    /\ Len(Get(Data, last.arg[1])) = 2
    /\ Has(Get(Data, last.arg[1]), last.arg[4])
    /\ ~Has(Get(Data, last.arg[1]), last.arg[2])
    /\ \E k \in Keys(Data) \ {last.arg[1]} : Get(Data, k) # EmptyDict

\* C17: the no-op rename.  edit_account(s, u, True, u) returns False and
\* leaves the Document unchanged, for every s and u.
C17_NoOpRename ==
    [][\A n \in StoreServices, u \in StoreUsers :
          (last'.op = "edit_account" /\ EditAccount(n, u, TRUE, u))
          => last'.res = "False" /\ managers' = managers]_vars

\* an existing account was renamed to its own username
C17_Witness ==
    /\ last.op = "edit_account"
    /\ last.arg[3]
    /\ last.arg[4] = last.arg[2]
    /\ last.res = "False"
    /\ Has(Data, last.arg[1])
    /\ Has(Get(Data, last.arg[1]), last.arg[2])

\* C18: delete_account(service, user) raises KeyError and leaves the Document
\* unchanged if the service or the user is absent; otherwise it removes that
\* entry only: the service stays, even when empty, with its other accounts,
\* and so does every other service.
C18_DeleteAccount ==
    [][\A n \in StoreServices, u \in StoreUsers :
          (last'.op = "delete_account" /\ DeleteAccount(n, u))
          => LET after == managers'[manager].data
             IN  IF AccountAbsent(Data, n, u)
                 THEN last'.res = "KeyError" /\ managers' = managers
                 ELSE /\ last'.res = "None"
                      /\ Keys(after) = Keys(Data)
                      /\ Keys(Get(after, n)) = Keys(Get(Data, n)) \ {u}
                      /\ Len(Get(after, n)) = Len(Get(Data, n)) - 1
                      /\ \A w \in Keys(Get(Data, n)) \ {u} :
                            Get(Get(after, n), w) = Get(Get(Data, n), w)
                      /\ \A k \in Keys(Data) \ {n} :
                            DictEq(Get(after, k), Get(Data, k))]_vars

\* the only account of a service was deleted: the service is there, empty,
\* beside a service that holds accounts
C18_Witness ==
    /\ last.op = "delete_account"
    /\ last.res = "None"
    /\ Has(Data, last.arg[1])
    /\ Get(Data, last.arg[1]) = EmptyDict
    /\ \E k \in Keys(Data) \ {last.arg[1]} : Len(Get(Data, k)) = 2

\* C19: delete_service(name) raises KeyError and leaves the Document unchanged
\* if name is absent; otherwise it removes that service only and every other
\* service keeps its accounts.
C19_DeleteService ==
    [][\A n \in NameServices :
          (last'.op = "delete_service" /\ DeleteService(n))
          => LET after == managers'[manager].data
             IN  IF ~Has(Data, n)
                 THEN last'.res = "KeyError" /\ managers' = managers
                 ELSE /\ last'.res = "None"
                      /\ Keys(after) = Keys(Data) \ {n}
                      /\ Len(after) = Len(Data) - 1
                      /\ \A k \in Keys(Data) \ {n} :
                            DictEq(Get(after, k), Get(Data, k))]_vars

\* one of three services was deleted and the two that stay hold accounts
C19_Witness ==
    /\ last.op = "delete_service"
    /\ last.res = "None"
    /\ last.old # <<>>
    /\ Len(Data) = 2
    /\ \A i \in 1..Len(Data) : Data[i].v # EmptyDict

\* C20: Manager.get_services returns every service of the Document exactly
\* once, with its accounts, in ascending order of service name; it is a view:
\* the call changes neither the Document nor what a later call returns.
C20_GetServicesSortedView ==
    [][GetServices
       => LET got == last'.old[1]
          IN  /\ Len(got) = Len(Data)
              /\ UniqueKeys(got)
              /\ Keys(got) = Keys(Data)
              /\ \A k \in Keys(Data) : Get(got, k) = Get(Data, k)
              /\ \A i \in 1..(Len(got) - 1) : StrLess(got[i].k, got[i + 1].k)
              /\ managers' = managers
              /\ get_services(managers'[manager].data) = got]_vars

\* three services, added in another order than the sorted one and holding
\* accounts, were listed
C20_Witness ==
    /\ last.op = "get_services"
    /\ Len(Data) = 3
    /\ last.old[1] # Data
    /\ HasAccount(Data)

\* the names the call record gives to the CRUD methods and to get_services
CrudOps ==
    {"add_service", "rename_service", "delete_service", "add_account",
     "edit_account", "delete_account", "get_services"}

\* C21: no CRUD operation persists.  A call of add_service, rename_service,
\* delete_service, add_account, edit_account, delete_account or get_services,
\* whether it succeeds or fails, leaves the file unchanged; the file changes
\* only in a step that runs Manager.write (the lock, the exit, a failing write).
C21_NoImplicitPersist ==
    [][/\ last'.op \in CrudOps => file' = file
       /\ file' # file => last'.op \in {"lock", "exit", "write"}]_vars

\* a file is on disk and a CRUD call has just changed the Document in memory,
\* which the file does not hold
C21_Witness ==
    /\ manager # 0
    /\ last.op \in CrudOps
    /\ last.res = "None"
    /\ file.exists
    /\ OpensTo(file, Key, EmptyDict)
    /\ HasAccount(Data)

\* C22: opening a vault when no file exists is not an error: for every
\* password the Manager is created, with the key of that password and an
\* empty Document, and the open creates no file.
C22_OpenWithoutFile ==
    [][\A p \in ValidPasswords :
          (last'.op = "login" /\ ~file.exists /\ Login(p))
          => /\ last'.res = "ok"
             /\ Len(managers') = Len(managers) + 1
             /\ manager' = Len(managers')
             /\ managers'[manager'].data = EmptyDict
             /\ managers'[manager'].key = derive_key(p)
             /\ ~file'.exists]_vars

\* a Manager was opened with the second password while no file existed
C22_Witness ==
    /\ last.op = "login"
    /\ last.arg[1] = PwB
    /\ last.res = "ok"
    /\ ~file.exists
    /\ manager # 0
    /\ Data = EmptyDict
    /\ Key = derive_key(PwB)

\* C23: a wrong password and a corrupted or tampered file are reported as one
\* error kind.  For every existing file that is not a complete vault sealed
\* under the supplied password, bytes damaged at the compression layer
\* included, the open ends in the error of a wrong password, InvalidToken.
C23_UniformAuthFailure ==
    [][\A p \in ValidPasswords :
          (/\ last'.op = "login"
           /\ file.exists
           /\ ~SealedUnder(file, p)
           /\ Login(p))
          => last'.res = "InvalidToken" /\ managers' = managers]_vars

\* C24: persistence triggers are idempotent.  When Manager.write runs again
\* with no mutation and no password change since its last run (the exit hook
\* of the one Manager, right after the lock wrote it), the file opens with the
\* Manager's key to the same Document as after the first write.
C24_WriteIdempotent ==
    [][(last'.op = "exit" /\ last.op = "lock" /\ Len(exit_hooks) = 1)
       => LET m == managers[exit_hooks[1]]
          IN  /\ OpensTo(file, m.key, m.data)
              /\ OpensTo(file', m.key, m.data)
              /\ Read(file', m.key) = Read(file, m.key)]_vars

\* the exit hook of the one Manager has written again, right after the lock,
\* a Document that holds an account
C24_Witness ==
    /\ last.op = "exit"
    /\ last.arg = <<1>>
    /\ last.old = <<"lock", "None">>
    /\ file.exists
    /\ \E p \in ValidPasswords :
          Read(file, derive_key(p)).res = "ok" /\ HasAccount(Read(file, derive_key(p)).data)

\* C25: a failing write never drops the in-memory Document.  When
\* Manager.write raises, the Manager, its Document and its key are as before,
\* and the next write that succeeds (the exit hook) persists that Manager's
\* Document under its key.
C25_FailedWriteKeepsDocument ==
    [][/\ WriteFails
          => /\ managers' = managers
             /\ manager' = manager
             /\ exit_hooks' = exit_hooks
       /\ (timer = -2 /\ last'.op = "exit" /\ Len(exit_hooks) = 1)
          => OpensTo(file', managers[exit_hooks[1]].key, managers[exit_hooks[1]].data)]_vars

\* the write of the timeout failed and the exit hook then wrote a Document
\* that holds an account
C25_Witness ==
    /\ last.op = "exit"
    /\ last.arg = <<1>>
    /\ last.old = <<"write", "OSError">>
    /\ file.exists
    /\ \E p \in ValidPasswords :
          Read(file, derive_key(p)).res = "ok" /\ HasAccount(Read(file, derive_key(p)).data)

\* C26: an inactivity lock discards the in-memory key and Document.  After
\* the lock no Manager created before it can write the vault: every write at
\* exit is made by the Manager the GUI holds, opened with a newly supplied
\* password.
C26_LockDiscardsManager ==
    [][last'.op = "exit"
       => \A i \in 1..Len(exit_hooks) : exit_hooks[i] = manager]_vars

\* the number of times character c occurs in string s
CharCount(s, c) == Cardinality({i \in 1..Len(s) : s[i] = c})

\* salt holds the characters of password, each as often, in descending order
IsSaltOf(salt, password) ==
    /\ Len(salt) = Len(password)
    /\ \A i \in 1..Len(password) : CharCount(salt, password[i]) = CharCount(password, password[i])
    /\ \A i \in 1..(Len(salt) - 1) : salt[i] >= salt[i + 1]

\* C27: key derivation is deterministic and stateless.  The key a Manager
\* holds is the one of the password last given to it, whatever was derived
\* before; Managers given the same password hold the same key; the salt is the
\* password's characters sorted and reversed, so passwords with the same
\* characters in another order have the same salt.
C27_KeyDerivation ==
    /\ (manager # 0 /\ last.op \in {"login", "change_password"} /\ last.res \in {"ok", "None"})
       => Key.secret = last.arg[1]
    /\ \A i \in 1..Len(managers) :
          /\ IsSaltOf(managers[i].key.salt, managers[i].key.secret)
          /\ \A j \in 1..Len(managers) :
                /\ managers[i].key.secret = managers[j].key.secret
                   => managers[i].key = managers[j].key
                /\ (\A c \in 1..2 : CharCount(managers[i].key.secret, c)
                                    = CharCount(managers[j].key.secret, c))
                   => managers[i].key.salt = managers[j].key.salt

\* two Managers hold the keys of two passwords that differ in the order of
\* their characters: the salts agree, the keys do not
C27_Witness ==
    /\ Len(managers) = 2
    /\ managers[1].key.secret = PwB
    /\ managers[2].key.secret = PwA
    /\ managers[1].key.salt = managers[2].key.salt
    /\ managers[1].key # managers[2].key

\* C28: the key of a Manager changes only in change_password.  Every CRUD
\* call, get_services and write leave every key as it is; the lock's write
\* seals under the key the Manager holds, so a vault opened with password P
\* and locked without a change of password is sealed under derive_key(P).
C28_KeyFrame ==
    [][/\ \A i \in 1..Len(managers) :
             (i <= Len(managers') /\ managers'[i].key # managers[i].key)
             => last'.op = "change_password" /\ i = manager
       /\ (last'.op = "lock" /\ manager # 0 /\ manager' = 0)
          => /\ file'.gz = "whole"
             /\ FernetValid(Key, urlsafe_b64encode(file'.data[1]))
             /\ last.op = "login" => SealedUnder(file', last.arg[1])]_vars

\* a vault opened with the second password was changed by CRUD calls and then
\* locked: the file is sealed under the key of that password
C28_Witness ==
    /\ last.op = "lock"
    /\ last.old = <<>>
    /\ managers[last.arg[1]].key = derive_key(PwB)
    /\ HasAccount(managers[last.arg[1]].data)
    /\ SealedUnder(file, PwB)
    /\ OpensTo(file, derive_key(PwB), managers[last.arg[1]].data)

\* every service name and every username of the Document is a non-empty string
NonEmptyNames(doc) ==
    \A i \in 1..Len(doc) :
        /\ doc[i].k # <<>>
        /\ \A j \in 1..Len(doc[i].v) : doc[i].v[j].k # <<>>

\* the usernames that occur in the Document
Usernames(doc) == UNION {Keys(doc[i].v) : i \in 1..Len(doc)}

\* the service names a call is given to store
GivenServices(c) ==
    IF c.op = "add_service" THEN {c.arg[1]}
    ELSE IF c.op = "rename_service" THEN {c.arg[2]}
    ELSE {}

\* the usernames a call is given to store
GivenUsers(c) ==
    IF c.op = "add_service" THEN Keys(c.arg[2])
    ELSE IF c.op = "add_account" THEN {c.arg[2]}
    ELSE IF c.op = "edit_account" THEN {IF c.arg[3] THEN c.arg[4] ELSE c.arg[2]}
    ELSE {}

\* C29 as stated: in every reachable Document every service name and every
\* username is a non-empty string, whatever strings the calls are given.
C29_NonEmptyNames == NonEmptyNames(Data)

\* C29, amended: a call puts no name into the Document but the names it is
\* given, so a Document whose names are non-empty keeps that property across
\* every call that is given non-empty names.
C29_NamesComeFromArguments ==
    [][LET after == managers'[manager].data
       IN  /\ Keys(after) \subseteq Keys(Data) \cup GivenServices(last')
           /\ Usernames(after) \subseteq Usernames(Data) \cup GivenUsers(last')
           /\ (/\ NonEmptyNames(Data)
               /\ \A x \in GivenServices(last') \cup GivenUsers(last') : x # <<>>)
              => NonEmptyNames(after)]_vars

\* a username edit given a non-empty name has left a Document of non-empty names
C29_Witness ==
    /\ last.op = "edit_account"
    /\ last.arg[3]
    /\ last.res = "None"
    /\ last.arg[4] # <<>>
    /\ HasAccount(Data)
    /\ NonEmptyNames(Data)

\* C30: no persistence trigger observes a half-applied CRUD operation.  The
\* write of the kill handler runs only when no CRUD call is under way, so it
\* never seals a Document that holds a record under both the old and the new
\* name of a rename_service or of a username edit in progress.
C30_NoHalfAppliedWrite ==
    [][last'.op = "signal" => phase = "running"]_vars

\* C32: a call that raises changes nothing.  Whenever a call of add_service,
\* rename_service, delete_service, add_account, edit_account or delete_account
\* ends in KeyError or ValueError, the Document after the call is the Document
\* before it, service for service and account for account, in the same order.
C32_ErrorAtomicity ==
    [][(/\ last'.op \in CrudOps
        /\ last'.res \in {"KeyError", "ValueError"}) => Data' = Data]_vars

\* a rename has raised KeyError on a Document that holds a service with an account
C32_Witness ==
    /\ last.op = "rename_service"
    /\ last.res = "KeyError"
    /\ HasAccount(Data)

\* C33: a failed open has no effect on the vault.  A login that ends in an
\* exception (or in the length test) constructs no Manager, registers no exit
\* hook and leaves the file as it is; and when the process exits with no Manager
\* constructed in it, whatever logins were tried, the file after the exit is the
\* file before it.
C33_FailedOpenNoEffect ==
    [][/\ (last'.op = "login" /\ last'.res # "ok")
            => /\ exit_hooks' = exit_hooks
               /\ managers' = managers
               /\ manager' = manager
               /\ file' = file
       /\ (last'.op = "exit" /\ managers = <<>>) => file' = file]_vars

\* the process has exited right after a login under the wrong password, with
\* no hook to run, and the vault file is on disk
C33_Witness ==
    /\ phase = "exited"
    /\ last.op = "exit"
    /\ last.arg = <<>>
    /\ last.old = <<"login", "InvalidToken">>
    /\ file.exists

\* the main screen or the change-password screen is shown
Shown == Running /\ current_screen \in {"main", "change"}

\* the step in which the timer stops itself: the lock
LockStep == timer # -1 /\ timer' = -1

\* C34: the inactivity lock.  While the main screen or the change-password
\* screen is shown, every step either resets the counter to 0 (a user event) or
\* is a run of the timer that counts one up, until the run that finds the
\* counter at INACTIVITY_PERIOD: that run writes the Document of the GUI's
\* Manager to the file, drops the manager and shows the login screen.  The
\* written file is that of the Manager held before it was dropped.  A stopped
\* timer (-1) is only ever found on the login screen with no manager, leaves
\* only by a reset to 0, and no lock follows a lock without another call (a
\* login) in between.  A counter that has begun to count is in the end reset
\* or stopped by the lock.
C34_InactivityLock ==
    /\ [][/\ (Shown /\ phase' = "running")
               => \/ timer' = 0
                  \/ timer < INACTIVITY_PERIOD /\ timer' = timer + 1 /\ file' = file
                  \/ timer = INACTIVITY_PERIOD /\ LockStep
          /\ LockStep
               => /\ Shown
                  /\ timer = INACTIVITY_PERIOD
                  /\ manager # 0
                  /\ file' = Written(managers[manager])
                  /\ manager' = 0
                  /\ current_screen' = "login"
                  /\ last.op # "lock"
                  /\ last'.op = "lock"
          /\ (Running /\ timer = -1)
               => /\ current_screen = "login"
                  /\ manager = 0
                  /\ timer' \in {-1, 0}]_vars
    /\ (timer > 0) ~> (timer <= 0)

\* the timer has locked the vault for the second time in this run of the
\* program, after a new login, and the file holds the second Manager's
\* Document, which has an account
C34_Witness ==
    /\ Running
    /\ last.op = "lock"
    /\ last.arg = <<2>>
    /\ timer = -1
    /\ current_screen = "login"
    /\ manager = 0
    /\ HasAccount(managers[2].data)
    /\ OpensTo(file, managers[2].key, managers[2].data)

\* C35: the timer never uses a manager that is not there.  Whenever the main
\* screen or the change-password screen is shown, and so whenever the next run
\* of inactivity_timer is the one that calls self.manager.write(), GUI.manager
\* is set.  On the create/login screen no step of the running program counts
\* the timer up or writes the file: the timer keeps its value or is set to 0 by
\* a user event.
C35_TimerHasManager ==
    /\ [](Shown => manager # 0)
    /\ []((Running /\ LockDue) => manager \in 1..Len(managers))
    /\ [][(/\ Running
           /\ current_screen \in {"create", "login"}
           /\ phase' = "running")
             => /\ timer' \in {timer, 0}
                /\ file' = file
                /\ manager' = 0 => manager = 0]_vars

\* after a lock a user event has reset the stopped timer on the login screen,
\* where no manager is set
C35_Witness ==
    /\ Running
    /\ current_screen = "login"
    /\ manager = 0
    /\ timer = 0
    /\ last.op = "lock"

\* the names the Service widgets show
WidgetNames == {services.service_objects[i].name[1] : i \in Objects \ Unconfirmed}

\* C31: the store is asked to create a service only once a name is known.
\* Every call of add_service made by the UI has a non-empty name, the text of
\* the label of the one Service that was being added; when it succeeds that
\* widget carries the name from then on.  The Document never holds an empty
\* service name, and its services are those of the named widgets.  At most one
\* widget is without a name at any time: while Services.adding is set there is
\* exactly one, the last of the list, and otherwise there is none.
C31_CreateOnceNamed ==
    /\ [](/\ Cardinality(Unconfirmed) <= 1
          /\ services.adding <=> Unconfirmed # {}
          /\ Unconfirmed \subseteq {Len(services.service_objects)}
          /\ \A i \in 1..Len(Data) : Data[i].k # <<>>
          /\ Keys(Data) = WidgetNames)
    /\ [][(last'.op = "add_service" /\ last' # last)
             => /\ ~is_empty(last'.arg[1])
                /\ Unconfirmed # {}
                /\ last'.res = "None"
                     => /\ ~Has(Data, last'.arg[1])
                        /\ Has(Data', last'.arg[1])
                        /\ \E i \in 1..Len(services'.service_objects) :
                              services'.service_objects[i].name = <<last'.arg[1]>>
                        /\ ~services'.adding]_vars

\* a service has just been created from the label of the widget that was being
\* added, beside a service the vault already held
C31_Witness ==
    /\ last.op = "add_service"
    /\ last.res = "None"
    /\ Has(Data, last.arg[1])
    /\ Len(Data) = 2
    /\ ~services.adding
    /\ Len(services.service_objects) = 2

\* C36: two-step deletion.  The UI calls delete_service only from a click on
\* the delete button of the Service that carries the name, and only when that
\* button has been clicked before since the pointer last came over it: a first
\* click deletes nothing, it sets delete_step; <Leave> of the button clears
\* delete_step.  So delete_step is set exactly while the pointer is over the
\* button and has clicked it.
C36_TwoStepDeletion ==
    /\ [](\A i \in Objects :
             services.service_objects[i].delete_step
                <=> services.service_objects[i].pointer = "clicked")
    /\ [][/\ (last'.op = "delete_service" /\ last' # last)
               => \E i \in Objects \ Unconfirmed :
                     /\ services.service_objects[i].name = <<last'.arg[1]>>
                     /\ services.service_objects[i].pointer = "clicked"
                     /\ services'.service_objects = RemoveAt(services.service_objects, i)
          /\ \A n \in Keys(Data) \ Keys(Data') :
                \/ last'.op = "rename_service" /\ last'.arg[1] = n /\ last'.res = "None"
                \/ /\ last'.op = "delete_service" /\ last'.arg[1] = n
                   /\ \E i \in Objects :
                         /\ services.service_objects[i].name = <<n>>
                         /\ services.service_objects[i].pointer = "clicked"
          /\ \A i \in Objects :
                (/\ services.service_objects[i].pointer = "over"
                 /\ Len(services'.service_objects) = Len(services.service_objects)
                 /\ services'.service_objects[i].pointer = "clicked")
                   => /\ Data' = Data
                      /\ services'.service_objects[i].delete_step]_vars

\* a service has been deleted by the second click on its delete button; the
\* one service that is left is not in its confirmation step
C36_Witness ==
    /\ last.op = "delete_service"
    /\ last.res = "None"
    /\ ~Has(Data, last.arg[1])
    /\ Len(Data) = 1
    /\ Len(services.service_objects) = 1
    /\ services.service_objects[1].delete_step = FALSE

\* the step has run Services.sort: from the sorting button, or from a creation
\* or a rename that succeeded
SortInvoked ==
    /\ last' # last
    /\ \/ last'.op = "sort"
       \/ last'.op \in {"add_service", "rename_service"} /\ last'.res = "None"

\* how that run of sort ended
SortResult == IF last'.op = "sort" THEN last'.res ELSE last'.old[2]

\* C37: Services.sort is safe.  Whenever sort is run (a click on the sorting
\* button, a service created, a service renamed) service_objects is not empty
\* and the run does not end in an exception.
C37_SortSafe ==
    [][SortInvoked => (services.service_objects # <<>> /\ SortResult = "None")]_vars
====
